---- MODULE Spec2Model ----
(***************************************************************************)
(* Model of the document preprocessing pipeline                            *)
(* (src/preprocess_pipeline.py, src/example_usage.py).                     *)
(*                                                                         *)
(* A Python str is a tuple of one-character strings, a dict is a function  *)
(* from keys to values, and dicts live in a heap (a sequence of objects    *)
(* addressed by position) so that two names can hold the same dict.        *)
(***************************************************************************)
EXTENDS Integers, Sequences, FiniteSets, TLC

VARIABLES
    entries,          \* names of the direct entries of folder_path
    iter,             \* entries Path(folder_path).iterdir() has not yielded yet
    file,             \* the loop variable of process_folder (a name, or None)
    pc,               \* position of process_folder
    heap,             \* the dict objects alive
    result,           \* reference of the record returned by preprocess_document, 0 if none
    outkind,          \* what output_folder is: "absent", "dir" or "file"
    outdir,           \* the files of output_folder: name -> content
    outdir0,          \* the files of output_folder when process_folder was called
    processed_files,  \* the list process_folder builds and returns
    stdout,           \* the lines printed
    calls,            \* the extractors called by the last preprocess_document
    metadata,         \* the caller's reference to the mapping given to normalize_to_json
    data,             \* the caller's reference to the record normalize_to_json returned
    ret,              \* the reference enrich_with_metadata returned, 0 if none
    outcome,          \* how the last direct call ended: "", "return" or the exception
    args              \* the function and arguments of the last direct call

vars == <<entries, iter, file, pc, heap, result, outkind, outdir, outdir0,
          processed_files, stdout, calls, metadata, data, ret, outcome, args>>

folderVars == <<entries, iter, file, pc, outkind, outdir, outdir0,
                processed_files, stdout>>
apiVars == <<metadata, data, ret, outcome, args>>

----------------------------------------------------------------------------
(* Bounds *)

MaxEntries == 3      \* entries of the input directory
MaxParts == 2        \* pages / paragraphs / shapes / items of one document

----------------------------------------------------------------------------
(* Python values *)

None == <<"<None>">>
Truthy(x) == x # None /\ x # <<>>

Whitespace == {" ", "\n"}

RECURSIVE lstrip(_)
lstrip(s) ==
    IF s # <<>> /\ Head(s) \in Whitespace THEN lstrip(Tail(s)) ELSE s

RECURSIVE rstrip(_)
rstrip(s) ==
    IF s # <<>> /\ s[Len(s)] \in Whitespace
    THEN rstrip(SubSeq(s, 1, Len(s) - 1)) ELSE s

strip(s) == rstrip(lstrip(s))

endswith(s, suffix) ==
    /\ Len(s) >= Len(suffix)
    /\ SubSeq(s, Len(s) - Len(suffix) + 1, Len(s)) = suffix

\* 1-based position of the last ch in s, 0 when there is none (Python: rfind + 1)
rfind(s, ch) ==
    LET hits == {i \in 1..Len(s) : s[i] = ch}
    IN  IF hits = {} THEN 0 ELSE CHOOSE i \in hits : \A j \in hits : j <= i

\* basename that keeps the directories
basename_KeepsDir(p) == p

basename(p) == SubSeq(p, rfind(p, "/") + 1, Len(p))

\* pathlib: the suffix starts at the last dot, which is neither the first nor the
\* last character of the name
PathSuffix(name) ==
    LET i == rfind(name, ".")
    IN  IF 1 < i /\ i < Len(name) THEN SubSeq(name, i, Len(name)) ELSE <<>>

PathStem(name) ==
    LET i == rfind(name, ".")
    IN  IF 1 < i /\ i < Len(name) THEN SubSeq(name, 1, i - 1) ELSE name

PathJoin(dir, name) == dir \o <<"/">> \o name

----------------------------------------------------------------------------
(* Literals of the source *)

dot_pdf  == <<".", "p", "d", "f">>
dot_docx == <<".", "d", "o", "c", "x">>
dot_xlsx == <<".", "x", "l", "s", "x">>
dot_pptx == <<".", "p", "p", "t", "x">>
dot_epub == <<".", "e", "p", "u", "b">>

extensions == {dot_pdf, dot_docx, dot_xlsx, dot_pptx, dot_epub}

PDF        == <<"P", "D", "F">>
Word       == <<"W", "o", "r", "d">>
Excel      == <<"E", "x", "c", "e", "l">>
PowerPoint == <<"P", "o", "w", "e", "r", "P", "o", "i", "n", "t">>
EPUB       == <<"E", "P", "U", "B">>

Unknown     == <<"U", "n", "k", "n", "o", "w", "n">>
DefaultDate == <<"2", "0", "2", "3", "-", "1", "0", "-", "0", "1">>

normalized_json ==
    <<"_", "n", "o", "r", "m", "a", "l", "i", "z", "e", "d", ".", "j", "s", "o", "n">>

folder_path == <<"i", "n">>

----------------------------------------------------------------------------
(* What the format libraries hand to the extractors.  A document is a      *)
(* sequence of parts (pages, paragraphs, shapes, package items); a part is *)
(* its text, or None when it has none (an image-only page, a shape without *)
(* text, a package item that is not a document).                           *)

Undecodable == <<"<bad-utf8>">>    \* item content that is not valid UTF-8

Hi    == <<"H", "i">>
Blank == <<" ">>

SeqsUpTo(S, n) == UNION {[1..k -> S] : k \in 0..n}

NoSheets == <<>>
OneSheet == <<[sheet |-> <<"S">>, rows |-> <<[A |-> 1]>>]>>

LibError == [err |-> TRUE, parts |-> <<>>, tables |-> NoSheets]
LibDoc(parts) == [err |-> FALSE, parts |-> parts, tables |-> NoSheets]
LibTables(t) == [err |-> FALSE, parts |-> <<>>, tables |-> t]

LibFor(extractor) ==
    {LibError} \cup
    CASE extractor = "extract_text_from_pdf" ->
             {LibDoc(p) : p \in SeqsUpTo({None, Blank, Hi}, MaxParts)}
      [] extractor = "extract_text_from_docx" ->
             {LibDoc(p) : p \in SeqsUpTo({Blank, Hi}, MaxParts)}
      [] extractor = "extract_tables_from_excel" ->
             {LibTables(t) : t \in {NoSheets, OneSheet}}
      [] extractor = "extract_text_from_ppt" ->
             {LibDoc(p) : p \in SeqsUpTo({None, Blank, Hi}, MaxParts)}
      [] extractor = "extract_text_from_epub" ->
             {LibDoc(p) : p \in SeqsUpTo({None, Undecodable, Hi}, MaxParts)}
      [] OTHER -> {}

\* The documents the files of the input directory hold: one that cannot be read
\* and one that can.
FolderLibFor(extractor) ==
    {LibError} \cup
    (IF extractor = "extract_tables_from_excel"
     THEN {LibTables(OneSheet)} ELSE {LibDoc(<<Hi>>)})

----------------------------------------------------------------------------
(* The extractors.  Each returns [exc, val]: the exception raised ("" for  *)
(* none) and the value returned.                                           *)

Ok(v) == [exc |-> "", val |-> v]
Raise(e) == [exc |-> e, val |-> None]

RECURSIVE PdfText(_)
PdfText(pages) ==
    IF pages = <<>> THEN <<>>
    ELSE (IF Truthy(Head(pages)) THEN Head(pages) ELSE <<>>) \o PdfText(Tail(pages))

extract_text_from_pdf(lib) ==
    IF lib.err THEN Raise("ExtractionFailure") ELSE Ok(strip(PdfText(lib.parts)))

RECURSIVE Join(_, _)
Join(sep, strs) ==
    IF strs = <<>> THEN <<>>
    ELSE IF Len(strs) = 1 THEN Head(strs)
    ELSE Head(strs) \o sep \o Join(sep, Tail(strs))

extract_text_from_docx(lib) ==
    IF lib.err THEN Raise("ExtractionFailure") ELSE Ok(strip(Join(<<" ">>, lib.parts)))

extract_tables_from_excel(lib) ==
    IF lib.err THEN Raise("ExtractionFailure") ELSE Ok(lib.tables)

RECURSIVE PptText(_)
PptText(shapes) ==
    IF shapes = <<>> THEN <<>>
    ELSE (IF Head(shapes) # None THEN Head(shapes) \o <<"\n">> ELSE <<>>)
         \o PptText(Tail(shapes))

extract_text_from_ppt(lib) ==
    IF lib.err THEN Raise("ExtractionFailure") ELSE Ok(strip(PptText(lib.parts)))

RECURSIVE EpubText(_)
EpubText(items) ==
    IF items = <<>> THEN <<>>
    ELSE (IF Head(items) # None THEN Head(items) ELSE <<>>) \o EpubText(Tail(items))

extract_text_from_epub(lib) ==
    IF lib.err \/ \E i \in 1..Len(lib.parts) : lib.parts[i] = Undecodable
    THEN Raise("ExtractionFailure")
    ELSE Ok(strip(EpubText(lib.parts)))

\* str(tables): the repr of the dict of sheets
PyStr(tables) ==
    IF tables = NoSheets THEN <<"{", "}">>
    ELSE <<"{", "'", "S", "'", ":", " ", "[", "{", "'", "A", "'", ":", " ", "1",
           "}", "]", "}">>

----------------------------------------------------------------------------
(* Dicts on the heap *)

DictSet(d, k, v) == [x \in DOMAIN d \cup {k} |-> IF x = k THEN v ELSE d[x]]

SetItem(h, ref, k, v) == [h EXCEPT ![ref] = DictSet(@, k, v)]

\* normalize_to_json that stores a copy of the mapping
normalize_Copies(h, file_type, content, meta) ==
    [heap |-> Append(Append(h, h[meta]),
                     [file_type |-> file_type, content |-> content,
                      metadata |-> Len(h) + 1]),
     ref |-> Len(h) + 2]

normalize_to_json(h, file_type, content, meta) ==
    [heap |-> Append(h, [file_type |-> file_type, content |-> content,
                         metadata |-> meta]),
     ref |-> Len(h) + 1]

\* enrich_with_metadata that tests date against None instead of its truth
enrich_NotNone(h, d, author, date, source) ==
    LET m  == h[d].metadata
        h1 == IF Truthy(author) THEN SetItem(h, m, "author", author) ELSE h
        h2 == IF date # None THEN SetItem(h1, m, "date", date) ELSE h1
        h3 == IF Truthy(source) THEN SetItem(h2, m, "source", source) ELSE h2
    IN  [heap |-> h3, ref |-> d]

enrich_with_metadata(h, d, author, date, source) ==
    LET m  == h[d].metadata
        h1 == IF Truthy(author) THEN SetItem(h, m, "author", author) ELSE h
        h2 == IF Truthy(date) THEN SetItem(h1, m, "date", date) ELSE h1
        h3 == IF Truthy(source) THEN SetItem(h2, m, "source", source) ELSE h2
    IN  [heap |-> h3, ref |-> d]

\* the chain with the file type of the .pdf branch copied into the .pptx branch
Dispatch_PptxAsPdf(file_path) ==
    IF endswith(file_path, dot_pdf)
    THEN [extractor |-> "extract_text_from_pdf", file_type |-> PDF]
    ELSE IF endswith(file_path, dot_docx)
    THEN [extractor |-> "extract_text_from_docx", file_type |-> Word]
    ELSE IF endswith(file_path, dot_xlsx)
    THEN [extractor |-> "extract_tables_from_excel", file_type |-> Excel]
    ELSE IF endswith(file_path, dot_pptx)
    THEN [extractor |-> "extract_text_from_ppt", file_type |-> PDF]
    ELSE IF endswith(file_path, dot_epub)
    THEN [extractor |-> "extract_text_from_epub", file_type |-> EPUB]
    ELSE [extractor |-> "", file_type |-> None]

\* the chain with its last elif written as the else
Dispatch_NoElse(file_path) ==
    IF endswith(file_path, dot_pdf)
    THEN [extractor |-> "extract_text_from_pdf", file_type |-> PDF]
    ELSE IF endswith(file_path, dot_docx)
    THEN [extractor |-> "extract_text_from_docx", file_type |-> Word]
    ELSE IF endswith(file_path, dot_xlsx)
    THEN [extractor |-> "extract_tables_from_excel", file_type |-> Excel]
    ELSE IF endswith(file_path, dot_pptx)
    THEN [extractor |-> "extract_text_from_ppt", file_type |-> PowerPoint]
    ELSE [extractor |-> "extract_text_from_epub", file_type |-> EPUB]

\* The branch of the if/elif chain file_path takes.
Dispatch(file_path) ==
    IF endswith(file_path, dot_pdf)
    THEN [extractor |-> "extract_text_from_pdf", file_type |-> PDF]
    ELSE IF endswith(file_path, dot_docx)
    THEN [extractor |-> "extract_text_from_docx", file_type |-> Word]
    ELSE IF endswith(file_path, dot_xlsx)
    THEN [extractor |-> "extract_tables_from_excel", file_type |-> Excel]
    ELSE IF endswith(file_path, dot_pptx)
    THEN [extractor |-> "extract_text_from_ppt", file_type |-> PowerPoint]
    ELSE IF endswith(file_path, dot_epub)
    THEN [extractor |-> "extract_text_from_epub", file_type |-> EPUB]
    ELSE [extractor |-> "", file_type |-> None]

Extract(extractor, lib) ==
    CASE extractor = "extract_text_from_pdf" -> extract_text_from_pdf(lib)
      [] extractor = "extract_text_from_docx" -> extract_text_from_docx(lib)
      [] extractor = "extract_tables_from_excel" ->
             LET tables == extract_tables_from_excel(lib)
             IN  IF tables.exc # "" THEN Raise(tables.exc) ELSE Ok(PyStr(tables.val))
      [] extractor = "extract_text_from_ppt" -> extract_text_from_ppt(lib)
      [] extractor = "extract_text_from_epub" -> extract_text_from_epub(lib)

\* preprocess_document(file_path), the library handing lib to the extractor called.
\* [exc, heap, ref, calls]: the exception raised ("" for none), the heap and the
\* record's reference on return, the extractors called.
preprocess_document(h, file_path, lib) ==
    LET br == Dispatch(file_path)
    IN  IF br.extractor = ""
        THEN [exc |-> "ValueError", heap |-> h, ref |-> 0, calls |-> <<>>]
        ELSE LET text == Extract(br.extractor, lib)
             IN  IF text.exc # ""
                 THEN [exc |-> text.exc, heap |-> h, ref |-> 0,
                       calls |-> <<br.extractor>>]
                 ELSE LET meta == [author |-> Unknown, date |-> DefaultDate,
                                   source |-> basename(file_path)]
                          n == normalize_to_json(Append(h, meta), br.file_type,
                                                 text.val, Len(h) + 1)
                      IN  [exc |-> "", heap |-> n.heap, ref |-> n.ref,
                           calls |-> <<br.extractor>>]

\* json.dump(result, f): the document written, the references followed.
JsonDump(h, ref) ==
    [file_type |-> h[ref].file_type, content |-> h[ref].content,
     metadata |-> h[h[ref].metadata]]

----------------------------------------------------------------------------
(* process_folder(folder_path, output_folder), one step per statement.     *)
(* A file can fail in preprocess_document, in open and in json.dump; the   *)
(* print calls write to the console and are taken not to raise.            *)

a_pdf   == <<"a", ".", "p", "d", "f">>
a_docx  == <<"a", ".", "d", "o", "c", "x">>
b_xlsx  == <<"b", ".", "x", "l", "s", "x">>
c_pptx  == <<"c", ".", "p", "p", "t", "x">>
a_epub  == <<"a", ".", "e", "p", "u", "b">>
d_epub  == <<"d", ".", "e", "p", "u", "b">>
e_PDF   == <<"e", ".", "P", "D", "F">>
f_txt   == <<"f", ".", "t", "x", "t">>
hidden  == <<".", "p", "d", "f">>
s_pdf   == <<"s", ".", "p", "d", "f">>

\* The names an input directory is drawn from: three share the stem "a", s.pdf is
\* a sub-directory, and .pdf is a hidden file without extension.
Universe == {a_pdf, a_docx, a_epub, b_xlsx, e_PDF, hidden, s_pdf}
Directories == {s_pdf}

is_file(name) == name \notin Directories

OutputName(name) == PathStem(name) \o normalized_json

NoDoc == [file_type |-> <<>>, content |-> <<>>,
          metadata |-> [author |-> <<>>, date |-> <<>>, source |-> <<>>]]
OldDoc == [file_type |-> Word, content |-> <<"o", "l", "d">>,
           metadata |-> [author |-> Unknown, date |-> DefaultDate,
                         source |-> <<"o", ".", "d", "o", "c", "x">>]]

\* A file's content: how much of a JSON document it holds ("none": empty, "part":
\* cut short, "all": the whole document) and, when whole, the document.
EmptyFile == [written |-> "none", doc |-> NoDoc]
PartFile  == [written |-> "part", doc |-> NoDoc]
WholeFile(doc) == [written |-> "all", doc |-> doc]

EmptyDir == [n \in {} |-> EmptyFile]
WriteFile(dir, name, content) ==
    [n \in DOMAIN dir \cup {name} |-> IF n = name THEN content ELSE dir[n]]

Line(msg, arg) == [msg |-> msg, arg |-> arg]

NoArgs == [fn |-> ""]

\* The test of line 132.
Supported(name) == is_file(name) /\ PathSuffix(name) \in extensions

FolderInit ==
    /\ entries \in {S \in SUBSET Universe : Cardinality(S) <= MaxEntries}
    /\ iter = entries
    /\ file = None
    /\ pc = "mkdir"
    /\ heap = <<>>
    /\ result = 0
    /\ \/ outkind \in {"absent", "file"} /\ outdir = EmptyDir
       \/ /\ outkind = "dir"
          /\ outdir \in {EmptyDir,
                         WriteFile(EmptyDir, OutputName(a_pdf), WholeFile(OldDoc))}
    /\ outdir0 = outdir
    /\ processed_files = <<>>
    /\ stdout = <<>>
    /\ calls = <<>>
    /\ metadata = 0 /\ data = 0 /\ ret = 0 /\ outcome = "" /\ args = NoArgs

\* Path(output_folder).mkdir(exist_ok=True): raises when the path is a file
Mkdir ==
    /\ pc = "mkdir"
    /\ IF outkind = "file"
       THEN pc' = "raised" /\ outkind' = outkind
       ELSE pc' = "loop" /\ outkind' = "dir"
    /\ UNCHANGED <<entries, iter, file, heap, result, outdir, outdir0,
                   processed_files, stdout, calls>>
    /\ UNCHANGED apiVars

\* for file in Path(folder_path).iterdir(): the next entry, in the file system's order
IterNext ==
    /\ pc = "loop"
    /\ \E name \in iter :
          /\ file' = name
          /\ iter' = iter \ {name}
    /\ pc' = "filter"
    /\ UNCHANGED <<entries, heap, result, outkind, outdir, outdir0,
                   processed_files, stdout, calls>>
    /\ UNCHANGED apiVars

\* if file.is_file() and file.suffix in extensions
Filter ==
    /\ pc = "filter"
    /\ pc' = IF Supported(file) THEN "try" ELSE "loop"
    /\ UNCHANGED <<entries, iter, file, heap, result, outkind, outdir, outdir0,
                   processed_files, stdout, calls>>
    /\ UNCHANGED apiVars

\* print(f"Processing {file.name}...")
PrintProcessing ==
    /\ pc = "try"
    /\ stdout' = Append(stdout, Line("Processing", file))
    /\ pc' = "preprocess"
    /\ UNCHANGED <<entries, iter, file, heap, result, outkind, outdir, outdir0,
                   processed_files, calls>>
    /\ UNCHANGED apiVars

\* result = preprocess_document(file); the record of the file before is garbage
Preprocess ==
    /\ pc = "preprocess"
    /\ \E lib \in FolderLibFor(Dispatch(PathJoin(folder_path, file)).extractor) :
          LET r == preprocess_document(<<>>, PathJoin(folder_path, file), lib)
          IN  /\ calls' = r.calls
              /\ IF r.exc = ""
                 THEN heap' = r.heap /\ result' = r.ref /\ pc' = "open"
                 ELSE heap' = heap /\ result' = result /\ pc' = "except"
    /\ UNCHANGED <<entries, iter, file, outkind, outdir, outdir0,
                   processed_files, stdout>>
    /\ UNCHANGED apiVars

\* open that leaves an output file that is already there and reports it saved
Open_SkipsExisting ==
    /\ pc = "open"
    /\ IF OutputName(file) \in DOMAIN outdir
       THEN outdir' = outdir /\ pc' = "saved"
       ELSE outdir' = WriteFile(outdir, OutputName(file), EmptyFile) /\ pc' = "dump"
    /\ UNCHANGED <<entries, iter, file, heap, result, outkind, outdir0,
                   processed_files, stdout, calls>>
    /\ UNCHANGED apiVars

\* open(output_file, 'w', encoding='utf-8'): creates the file, or empties it
Open ==
    /\ pc = "open"
    /\ outdir' = WriteFile(outdir, OutputName(file), EmptyFile)
    /\ pc' = "dump"
    /\ UNCHANGED <<entries, iter, file, heap, result, outkind, outdir0,
                   processed_files, stdout, calls>>
    /\ UNCHANGED apiVars

\* a failure of open that is swallowed, the file reported saved
OpenFails_Swallowed ==
    /\ pc = "open"
    /\ pc' = "saved"
    /\ UNCHANGED <<entries, iter, file, heap, result, outkind, outdir, outdir0,
                   processed_files, stdout, calls>>
    /\ UNCHANGED apiVars

\* open fails (no permission, the name is a directory): nothing is created
OpenFails ==
    /\ pc = "open"
    /\ pc' = "except"
    /\ UNCHANGED <<entries, iter, file, heap, result, outkind, outdir, outdir0,
                   processed_files, stdout, calls>>
    /\ UNCHANGED apiVars

\* json.dump(result, f, indent=4, ensure_ascii=False), and the file closed
Dump ==
    /\ pc = "dump"
    /\ outdir' = WriteFile(outdir, OutputName(file), WholeFile(JsonDump(heap, result)))
    /\ pc' = "saved"
    /\ UNCHANGED <<entries, iter, file, heap, result, outkind, outdir0,
                   processed_files, stdout, calls>>
    /\ UNCHANGED apiVars

\* the write fails (the disk is full, a character cannot be encoded): the file
\* stays as far as it was written
DumpFails ==
    /\ pc = "dump"
    /\ \E content \in {EmptyFile, PartFile} :
          outdir' = WriteFile(outdir, OutputName(file), content)
    /\ pc' = "except"
    /\ UNCHANGED <<entries, iter, file, heap, result, outkind, outdir0,
                   processed_files, stdout, calls>>
    /\ UNCHANGED apiVars

\* print(f"Saved to {output_file}"); processed_files.append(file.name)
Saved ==
    /\ pc = "saved"
    /\ stdout' = Append(stdout, Line("Saved", OutputName(file)))
    /\ processed_files' = Append(processed_files, file)
    /\ pc' = "loop"
    /\ UNCHANGED <<entries, iter, file, heap, result, outkind, outdir, outdir0, calls>>
    /\ UNCHANGED apiVars

\* a handler that raises the exception again
Except_Reraises ==
    /\ pc = "except"
    /\ stdout' = Append(stdout, Line("Error", file))
    /\ pc' = "raised"
    /\ UNCHANGED <<entries, iter, file, heap, result, outkind, outdir, outdir0,
                   processed_files, calls>>
    /\ UNCHANGED apiVars

\* a handler that records the name of the file that failed
Except_RecordsName ==
    /\ pc = "except"
    /\ stdout' = Append(stdout, Line("Error", file))
    /\ processed_files' = Append(processed_files, file)
    /\ pc' = "loop"
    /\ UNCHANGED <<entries, iter, file, heap, result, outkind, outdir, outdir0, calls>>
    /\ UNCHANGED apiVars

\* except Exception as e: print(f"Error processing {file.name}: {e}")
Except ==
    /\ pc = "except"
    /\ stdout' = Append(stdout, Line("Error", file))
    /\ pc' = "loop"
    /\ UNCHANGED <<entries, iter, file, heap, result, outkind, outdir, outdir0,
                   processed_files, calls>>
    /\ UNCHANGED apiVars

\* return processed_files
Return ==
    /\ pc = "loop"
    /\ iter = {}
    /\ pc' = "done"
    /\ UNCHANGED <<entries, iter, file, heap, result, outkind, outdir, outdir0,
                   processed_files, stdout, calls>>
    /\ UNCHANGED apiVars

Next ==
    \/ Mkdir
    \/ IterNext
    \/ Filter
    \/ PrintProcessing
    \/ Preprocess
    \/ Open
    \/ OpenFails
    \/ Dump
    \/ DumpFails
    \/ Saved
    \/ Except
    \/ Return

Spec == FolderInit /\ [][Next]_vars

\* process_folder runs alone and synchronously: a step that can be taken is taken.
FairSpec == Spec /\ WF_vars(Next)

----------------------------------------------------------------------------
(* Direct calls of preprocess_document, normalize_to_json and              *)
(* enrich_with_metadata (src/example_usage.py).  Each call ends by         *)
(* returning or by raising to its caller, where nothing catches.  A        *)
(* behaviour is one caller: either one preprocess_document call, or one    *)
(* normalize_to_json call followed by any number of changes of the mapping *)
(* and of enrich_with_metadata calls.                                      *)

report_xyz == <<"r", ".", "x", "y", "z">>
report_PDF == <<"r", ".", "P", "D", "F">>
noext      == <<"r", "e", "p", "o", "r", "t">>
pdf_nodot  == <<"r", "p", "d", "f">>
a_pdf_bak  == <<"a", ".", "p", "d", "f", ".", "b", "a", "k">>
a_docx_pdf == <<"a", ".", "d", "o", "c", "x", ".", "p", "d", "f">>
pdf_dir    == <<"x", ".", "p", "d", "f", "/", "n">>

Paths ==
    {a_pdf, a_docx, b_xlsx, c_pptx, d_epub, hidden, a_docx_pdf,
     PathJoin(folder_path, a_pdf), PathJoin(folder_path, a_docx),
     PathJoin(folder_path, b_xlsx), PathJoin(folder_path, c_pptx),
     PathJoin(folder_path, d_epub),
     report_xyz, report_PDF, noext, pdf_nodot, a_pdf_bak, pdf_dir, e_PDF, f_txt, <<>>}

FileTypes == {PDF, Word, Excel, PowerPoint, EPUB}

A == <<"A">>
B == <<"B">>
ArgValues == {None, <<>>, A}

\* The mappings a caller hands to normalize_to_json.
CallerMetadata ==
    {<<>>,
     [author |-> B],
     [author |-> Unknown, date |-> DefaultDate, source |-> a_pdf],
     [date |-> B, extra |-> B]}

ApiInit ==
    /\ entries = {}
    /\ iter = {}
    /\ file = None
    /\ pc = "idle"
    /\ heap = <<>>
    /\ result = 0
    /\ outkind = "absent"
    /\ outdir = EmptyDir
    /\ outdir0 = EmptyDir
    /\ processed_files = <<>>
    /\ stdout = <<>>
    /\ calls = <<>>
    /\ metadata = 0 /\ data = 0 /\ ret = 0 /\ outcome = "" /\ args = NoArgs

\* result = preprocess_document(file_path)
CallPreprocess ==
    /\ args = NoArgs
    /\ \E file_path \in Paths :
         \E lib \in LibFor(Dispatch(file_path).extractor) :
            LET r == preprocess_document(<<>>, file_path, lib)
            IN  /\ heap' = r.heap
                /\ result' = r.ref
                /\ calls' = r.calls
                /\ outcome' = IF r.exc = "" THEN "return" ELSE r.exc
                /\ args' = [fn |-> "preprocess_document", file_path |-> file_path]
    /\ metadata' = 0 /\ data' = 0 /\ ret' = 0
    /\ UNCHANGED folderVars

\* m = {...}; data = normalize_to_json(file_type, content, m)
CallNormalize ==
    /\ args = NoArgs
    /\ \E file_type \in FileTypes \cup {<<"x">>}, content \in {<<>>, Hi},
          m \in CallerMetadata :
            LET r == normalize_to_json(<<m>>, file_type, content, 1)
            IN  /\ heap' = r.heap
                /\ metadata' = 1
                /\ data' = r.ref
                /\ args' = [fn |-> "normalize_to_json", file_type |-> file_type,
                            content |-> content]
    /\ outcome' = "return"
    /\ ret' = 0 /\ result' = 0 /\ calls' = <<>>
    /\ UNCHANGED folderVars

\* m[key] = value, by the caller, after normalize_to_json
CallerSetItem ==
    /\ data # 0
    /\ \E key \in {"author", "extra"}, value \in {A, B} :
          /\ heap' = SetItem(heap, metadata, key, value)
          /\ args' = [fn |-> "setitem", key |-> key, value |-> value]
    /\ outcome' = "return"
    /\ UNCHANGED <<metadata, data, ret, result, calls>>
    /\ UNCHANGED folderVars

\* ret = enrich_with_metadata(data, author, date, source)
CallEnrich ==
    /\ data # 0
    /\ \E author \in ArgValues, date \in ArgValues, source \in ArgValues :
          LET r == enrich_with_metadata(heap, data, author, date, source)
          IN  /\ heap' = r.heap
              /\ ret' = r.ref
              /\ args' = [fn |-> "enrich_with_metadata", author |-> author,
                          date |-> date, source |-> source]
    /\ outcome' = "return"
    /\ UNCHANGED <<metadata, data, result, calls>>
    /\ UNCHANGED folderVars

ApiNext ==
    \/ CallPreprocess
    \/ CallNormalize
    \/ CallerSetItem
    \/ CallEnrich

ApiSpec == ApiInit /\ [][ApiNext]_vars

----------------------------------------------------------------------------
(* Properties of process_folder (specification Spec)                       *)

Lines(msg) == {i \in DOMAIN stdout : stdout[i].msg = msg}

\* how often the processing of name was started
Attempts(name) == Cardinality({i \in Lines("Processing") : stdout[i].arg = name})

\* name has one of the five extensions after a non-empty stem
HasSupportedExtension(name) ==
    \E ext \in {dot_pdf, dot_docx, dot_xlsx, dot_pptx, dot_epub} :
        Len(name) > Len(ext) /\ endswith(name, ext)

Matching == {n \in entries : n \notin Directories /\ HasSupportedExtension(n)}

\* the processing of name was started, and its next line reports the save
Succeeded(name) ==
    \E i \in Lines("Processing") :
        /\ stdout[i].arg = name
        /\ i < Len(stdout)
        /\ stdout[i + 1].msg = "Saved"

Failed(name) ==
    \E i \in Lines("Processing") :
        /\ stdout[i].arg = name
        /\ i < Len(stdout)
        /\ stdout[i + 1] = Line("Error", name)

\* the position at which name was enumerated among the attempted files
AttemptIndex(name) == CHOOSE i \in Lines("Processing") : stdout[i].arg = name

InList(name) == \E i \in DOMAIN processed_files : processed_files[i] = name

\* the output files the run created or changed
WrittenByRun ==
    {n \in DOMAIN outdir : n \notin DOMAIN outdir0 \/ outdir[n] # outdir0[n]}

\* what C1 says of every state: process_folder raises only from creating the
\* output directory, before any entry is looked at; the processing of a regular
\* file with a supported extension is started at most once, and at the end exactly
\* once, with its save or its error reported; no other entry is started.
C1_Attempts ==
    /\ pc = "raised" => stdout = <<>> /\ iter = entries /\ outkind = "file"
    /\ \A n \in Universe : Attempts(n) <= (IF n \in Matching THEN 1 ELSE 0)
    /\ pc = "done" => \A n \in Matching : Attempts(n) = 1
    /\ pc = "done" => \A n \in Matching : Succeeded(n) \/ Failed(n)

\* C1: process_folder never raises because of a per-file failure; it starts the
\* processing of every regular file of the directory that has a supported
\* extension exactly once and of no other entry, goes on with the next entry after
\* a failure, and then returns (it ends by raising only when the output directory
\* cannot be created, before any file is looked at).
C1_EveryMatchingFileOnce ==
    /\ []C1_Attempts
    /\ <>(pc \in {"done", "raised"})

C1_Witness ==
    /\ pc = "done"
    /\ Cardinality(Matching) >= 2
    /\ entries # Matching
    /\ \E i \in Lines("Error") : \E j \in Lines("Saved") : i < j

\* the list of the names whose processing was started and saved, in the order
\* in which they were started
RECURSIVE SavedInOrder(_)
SavedInOrder(out) ==
    IF Len(out) < 2 THEN <<>>
    ELSE IF out[1].msg = "Processing" /\ out[2].msg = "Saved"
         THEN <<out[1].arg>> \o SavedInOrder(Tail(Tail(out)))
         ELSE SavedInOrder(Tail(out))

\* C2: the returned list holds exactly the names of the files for which
\* preprocess_document and the write of the JSON file completed, each once, in the
\* order of enumeration; the name of a file that failed is not in it; and a name
\* enters the list only with its whole document in the output file.
C2_ReturnedAreTheSucceeded ==
    /\ pc \in {"loop", "done"} => processed_files = SavedInOrder(stdout)
    /\ \A n \in Universe : Failed(n) => ~InList(n)
    /\ \A i, j \in DOMAIN processed_files :
          processed_files[i] = processed_files[j] => i = j
    /\ pc = "loop" /\ processed_files # <<>> /\ stdout[Len(stdout)].msg = "Saved" =>
          LET n == processed_files[Len(processed_files)]
          IN  /\ OutputName(n) \in DOMAIN outdir
              /\ outdir[OutputName(n)].written = "all"
              /\ outdir[OutputName(n)].doc.metadata.source = n

C2_Witness ==
    /\ pc = "done"
    /\ Len(processed_files) = 2
    /\ \E n \in Matching : Failed(n)
    /\ \E i \in Lines("Error") : \E j \in Lines("Saved") : i < j

\* C3 as stated: the run writes as many output files as it returns names.
C3_Original_OneFilePerName ==
    pc = "done" => Cardinality(WrittenByRun) = Len(processed_files)

\* C3, amended: every returned name has its output file <stem>_normalized.json in
\* the output directory, written by the run; the run writes at least as many files
\* as the returned names have distinct stems, and never more files than it started.
C3_EveryReturnedNameHasItsFile ==
    pc = "done" =>
        /\ \A i \in DOMAIN processed_files :
              /\ OutputName(processed_files[i]) \in DOMAIN outdir
              /\ OutputName(processed_files[i]) \in WrittenByRun
        /\ Cardinality({OutputName(processed_files[i]) : i \in DOMAIN processed_files})
              <= Cardinality(WrittenByRun)
        /\ Cardinality(WrittenByRun) <= Cardinality(Lines("Processing"))

C3_Witness ==
    /\ pc = "done"
    /\ Len(processed_files) = 2
    /\ Cardinality(WrittenByRun) = 1
    /\ OutputName(a_pdf) \in DOMAIN outdir0

\* C4 as stated: a file whose processing fails leaves the output directory as it
\* was, so the files the run created or changed are exactly those of the returned
\* names, and each of them holds a whole document.
C4_Original_FailureLeavesOutputUntouched ==
    pc = "done" =>
        /\ WrittenByRun = {OutputName(processed_files[i]) : i \in DOMAIN processed_files}
        /\ \A n \in WrittenByRun : outdir[n].written = "all"

\* C9: when two files of the directory are the supported files with their stem and
\* both are processed and saved, the run ends without raising, both names are
\* returned, and <stem>_normalized.json holds the whole record of the one that was
\* enumerated later; and every file started is saved or reported failed before the
\* next file is looked at.
TypeOf(name) ==
    CASE endswith(name, dot_pdf) -> PDF
      [] endswith(name, dot_docx) -> Word
      [] endswith(name, dot_xlsx) -> Excel
      [] endswith(name, dot_pptx) -> PowerPoint
      [] endswith(name, dot_epub) -> EPUB

----------------------------------------------------------------------------
(* Properties of the direct calls (specification ApiSpec)                  *)

Preprocessed == args.fn = "preprocess_document"

\* the extractor and the file type the claims give for each extension
Expected ==
    {<<dot_pdf, "extract_text_from_pdf", PDF>>,
     <<dot_docx, "extract_text_from_docx", Word>>,
     <<dot_xlsx, "extract_tables_from_excel", Excel>>,
     <<dot_pptx, "extract_text_from_ppt", PowerPoint>>,
     <<dot_epub, "extract_text_from_epub", EPUB>>}

\* C5: for a path ending in one of the five extensions, preprocess_document calls
\* the extractor of that format and no other, and the record it returns has the
\* file type of that extension; it raises only what the extractor raised.
C5_DispatchByExtension ==
    Preprocessed =>
        \A e \in Expected :
            endswith(args.file_path, e[1]) =>
                /\ calls = <<e[2]>>
                /\ outcome \in {"return", "ExtractionFailure"}
                /\ outcome = "return" => heap[result].file_type = e[3]

C5_Witness ==
    /\ Preprocessed
    /\ args.file_path = PathJoin(folder_path, c_pptx)
    /\ outcome = "return"
    /\ heap[result].file_type = PowerPoint
    /\ heap[result].content = Hi \o <<"\n">> \o Hi

\* C6: for a path that ends in none of the five extensions, compared exactly and
\* with case, preprocess_document raises ValueError (the unsupported-format error)
\* to its caller, calls no extractor and returns no record.
C6_UnsupportedFormat ==
    Preprocessed /\ (\A e \in Expected : ~endswith(args.file_path, e[1])) =>
        /\ outcome = "ValueError"
        /\ calls = <<>>
        /\ result = 0
        /\ heap = <<>>

C6_Witness ==
    /\ Preprocessed
    /\ args.file_path = report_PDF
    /\ outcome = "ValueError"

Enriched == args.fn = "enrich_with_metadata"

HasKey(d, k) == k \in DOMAIN d

\* C7: a call of enrich_with_metadata sets each of author, date and source of the
\* record's metadata to its argument exactly when the argument is truthy, leaves
\* the key as it was (present with its value, or absent) when the argument is
\* None or the empty string, and changes no other key of the metadata, nor the
\* file type, the content or any other object; with no truthy argument it changes
\* nothing.
C7_EnrichSetsOnlyTruthy ==
    [][Enriched' =>
         LET m == heap[data].metadata
             old == heap[m]
             new == heap'[m]
         IN  /\ \A k \in {"author", "date", "source"} :
                   IF Truthy(args'[k])
                   THEN HasKey(new, k) /\ new[k] = args'[k]
                   ELSE /\ HasKey(new, k) <=> HasKey(old, k)
                        /\ HasKey(old, k) => new[k] = old[k]
             /\ \A k \in (DOMAIN old \cup DOMAIN new) \ {"author", "date", "source"} :
                   HasKey(old, k) /\ HasKey(new, k) /\ new[k] = old[k]
             /\ Len(heap') = Len(heap)
             /\ \A r \in DOMAIN heap : r # m => heap'[r] = heap[r]
             /\ data' = data /\ metadata' = metadata
             /\ (\A k \in {"author", "date", "source"} : ~Truthy(args'[k])) =>
                   heap' = heap
      ]_vars

C7_Witness ==
    /\ Enriched
    /\ args.author = A /\ args.date = <<>> /\ args.source = None
    /\ DOMAIN heap[metadata] = {"author", "date", "extra"}
    /\ heap[metadata].author = A
    /\ heap[metadata].date = B
    /\ heap[metadata].extra = B

Chars ==
    {"a", "b", "c", "d", "e", "f", "i", "l", "n", "o", "p", "s", "t", "u", "x",
     "H", "S", "A", ".", " ", "\n", "{", "}", "[", "]", "'", ":", "1"}

IsStr(v) == v # None /\ \A i \in DOMAIN v : v[i] \in Chars

\* s is path without its directories
IsBaseNameOf(s, path) ==
    /\ \A i \in DOMAIN s : s[i] # "/"
    /\ \/ path = s
       \/ \E i \in DOMAIN path :
             path[i] = "/" /\ s = SubSeq(path, i + 1, Len(path))

\* C8: a record preprocess_document returns is whole: its file type is one of the
\* five, its content is a string (for a spreadsheet the str() of its tables) and
\* its metadata is exactly author "Unknown", date "2023-10-01" and source the base
\* name of the path; when the extractor raises, the exception reaches the caller
\* and no record is returned.
C8_RecordIsComplete ==
    Preprocessed =>
        /\ outcome = "return" =>
              /\ DOMAIN heap[result] = {"file_type", "content", "metadata"}
              /\ heap[result].file_type \in {PDF, Word, Excel, PowerPoint, EPUB}
              /\ IsStr(heap[result].content)
              /\ heap[result].file_type = Excel =>
                    heap[result].content \in {PyStr(NoSheets), PyStr(OneSheet)}
              /\ DOMAIN heap[heap[result].metadata] = {"author", "date", "source"}
              /\ heap[heap[result].metadata].author = Unknown
              /\ heap[heap[result].metadata].date = DefaultDate
              /\ IsBaseNameOf(heap[heap[result].metadata].source, args.file_path)
        /\ outcome # "return" =>
              /\ outcome \in {"ValueError", "ExtractionFailure"}
              /\ result = 0
              /\ heap = <<>>

C8_Witness ==
    /\ Preprocessed
    /\ args.file_path = PathJoin(folder_path, b_xlsx)
    /\ outcome = "return"
    /\ heap[result].content = PyStr(OneSheet)
    /\ heap[heap[result].metadata].source = b_xlsx

\* C10: the record normalize_to_json returns holds the caller's mapping itself:
\* what the caller sets in the mapping afterwards is read through the record, what
\* enrich_with_metadata sets is read through the caller's mapping, and
\* enrich_with_metadata returns the record it was given, not another one.
C10_MetadataIsShared ==
    data # 0 =>
        /\ heap[heap[data].metadata] = heap[metadata]
        /\ args.fn = "setitem" =>
              /\ HasKey(heap[heap[data].metadata], args.key)
              /\ heap[heap[data].metadata][args.key] = args.value
        /\ Enriched /\ Truthy(args.author) =>
              /\ HasKey(heap[metadata], "author")
              /\ heap[metadata].author = args.author
        /\ Enriched => ret = data
        /\ ret # 0 => ret = data

C10_Witness ==
    /\ Enriched
    /\ ret = data
    /\ args.author = A /\ args.source = A
    /\ DOMAIN heap[metadata] = {"author", "source", "extra"}
    /\ heap[heap[data].metadata].extra = B
    /\ heap[metadata].source = A

====
